---- MODULE Spec2Model ----
(***************************************************************************)
(* The statute linkifier of app/main.py: load_law_pcode_mapping,           *)
(* SORTED_LAW_NAMES, linkify_law_names and linkify_law_section.            *)
(*                                                                         *)
(* A text is a sequence of characters.  A character is a string: an ASCII  *)
(* character is written as itself, any other character as its code point   *)
(* ("U+7B2C").  Offsets are Python's: 0-based, spans half-open.            *)
(***************************************************************************)
EXTENDS Integers, Sequences, FiniteSets, TLC

\* ---------------------------------------------------------------- characters

Di    == "U+7B2C"
Tiao  == "U+689D"
Zhi   == "U+4E4B"
Xiang == "U+9805"
Kuan  == "U+6B3E"
Dan   == "U+4F46"
Shu   == "U+66F8"

\* [《「『【] and [》」』】] of the pattern of linkify_law_names
OpenBrackets  == {"U+300A", "U+300C", "U+300E", "U+3010"}
CloseBrackets == {"U+300B", "U+300D", "U+300F", "U+3011"}

\* \d of a str pattern: the ASCII digits and the other decimal digits of
\* Unicode, of which the fullwidth ones stand here.
Digits == {"0", "1", "2", "3", "4", "5", "6", "7", "8", "9",
           "U+FF10", "U+FF11", "U+FF12", "U+FF13", "U+FF14",
           "U+FF15", "U+FF16", "U+FF17", "U+FF18", "U+FF19"}

\* \s of a str pattern
Whitespace == {" ", "\t", "\n", "\r", "\f", "U+000B", "U+3000"}

\* [：:] of the header patterns of linkify_law_section
Colons == {"U+FF1A", ":"}

\* ------------------------------------------------------------------- strings

\* None of a match position
None == 0 - 1

\* s[i]
At(s, i) == s[i + 1]

\* s[a:b], 0 <= a <= b <= len(s)
Slice(s, a, b) == SubSeq(s, a + 1, b)

\* s[i:i+len(w)] == w
LiteralAt(s, i, w) ==
    /\ i + Len(w) <= Len(s)
    /\ \A k \in 1..Len(w) : At(s, i + k - 1) = w[k]

\* ------------------------------------------------- the pattern, piece by piece

\* \d* from i, greedy: the offset after the last digit
RECURSIVE DigitsEnd(_, _)
DigitsEnd(s, i) ==
    IF i < Len(s) /\ At(s, i) \in Digits THEN DigitsEnd(s, i + 1) ELSE i

\* lead \d+ tail at i: the end of the match, or None
Numbered(s, i, lead, tail) ==
    IF i < Len(s) /\ At(s, i) = lead
    THEN LET j == DigitsEnd(s, i + 1)
         IN  IF j > i + 1 /\ j < Len(s) /\ At(s, j) = tail THEN j + 1 ELSE None
    ELSE None

\* 之\d+ at i: the end of the match, or None
ZhiNumber(s, i) ==
    IF i < Len(s) /\ At(s, i) = Zhi
    THEN LET j == DigitsEnd(s, i + 1) IN IF j > i + 1 THEN j ELSE None
    ELSE None

\* (...)? : the end of the optional part, or where it would have started
Optional(e, i) == IF e = None THEN i ELSE e

\* 第\d+條(?:之\d+)?(?:第\d+項)?(?:第\d+款)?(?:但書)? at i: its end, or None
ArticlePartEnd(s, i) ==
    LET e1 == Numbered(s, i, Di, Tiao)
    IN  IF e1 = None THEN None
        ELSE LET e2 == Optional(ZhiNumber(s, e1), e1)
                 e3 == Optional(Numbered(s, e2, Di, Xiang), e2)
                 e4 == Optional(Numbered(s, e3, Di, Kuan), e3)
             IN  IF LiteralAt(s, e4, <<Dan, Shu>>) THEN e4 + 2 ELSE e4

\* a faulty variant: the last character of the name is not compared
NameAtButLast(s, i, law_name) ==
    /\ i + Len(law_name) <= Len(s)
    /\ \A k \in 1..(Len(law_name) - 1) : At(s, i + k - 1) = law_name[k]

\* re.escape(law_name) at i
NameAt(s, i, law_name) == LiteralAt(s, i, law_name)

\* The whole pattern at i, as the backtracking matcher tries it: the leading
\* bracket is taken when the name follows it, else left out; the trailing
\* bracket and then the article part are each taken when present.
\* [start, end, g1]: match.span() and where group 1 starts (None: no group 1).
NoMatch == [start |-> None, end |-> None, g1 |-> None]

\* a faulty variant: a name right after a "[" is taken to be linked already
PatternAtUnlessLinked(s, i, law_name) ==
    LET n0 == IF At(s, i) \in OpenBrackets /\ NameAt(s, i + 1, law_name) THEN i + 1 ELSE i
    IN  IF i > 0 /\ At(s, i - 1) = "[" THEN NoMatch
        ELSE LET n1 == n0 + Len(law_name)
                 c  == IF n1 < Len(s) /\ At(s, n1) \in CloseBrackets THEN n1 + 1 ELSE n1
                 a  == ArticlePartEnd(s, c)
             IN  IF a = None THEN [start |-> i, end |-> c, g1 |-> None]
                 ELSE [start |-> i, end |-> a, g1 |-> c]

PatternAt(s, i, law_name) ==
    LET lead  == i < Len(s) /\ At(s, i) \in OpenBrackets /\ NameAt(s, i + 1, law_name)
        n0    == IF lead THEN i + 1 ELSE i
    IN  IF ~NameAt(s, n0, law_name) THEN NoMatch
        ELSE LET n1 == n0 + Len(law_name)
                 c  == IF n1 < Len(s) /\ At(s, n1) \in CloseBrackets THEN n1 + 1 ELSE n1
                 a  == ArticlePartEnd(s, c)
             IN  IF a = None THEN [start |-> i, end |-> c, g1 |-> None]
                 ELSE [start |-> i, end |-> a, g1 |-> c]

\* the pattern can match at i: the name is there, after a bracket or bare
StartsAt(s, i, law_name) ==
    \/ NameAt(s, i, law_name)
    \/ At(s, i) \in OpenBrackets /\ NameAt(s, i + 1, law_name)

\* the search of re.finditer: the leftmost match at or after offset from
FindFrom(s, from, law_name) ==
    LET starts == {i \in from..(Len(s) - 1) : StartsAt(s, i, law_name)}
    IN  IF starts = {} THEN NoMatch
        ELSE PatternAt(s, CHOOSE i \in starts : \A j \in starts : i <= j, law_name)

\* list(re.finditer(pattern, s)) from an offset on: each search resumes where
\* the match before it ended
RECURSIVE MatchesFrom(_, _, _)
MatchesFrom(s, from, law_name) ==
    LET m == FindFrom(s, from, law_name)
    IN  IF m = NoMatch THEN <<>> ELSE <<m>> \o MatchesFrom(s, m.end, law_name)

\* re.finditer(pattern, s), as the matches it will yield
FindIter(s, law_name) == MatchesFrom(s, 0, law_name)

\* match.group(1): the article part, empty for None
ArticlePart(s, m) == IF m.g1 = None THEN <<>> ELSE Slice(s, m.g1, m.end)

\* re.search(r'第(\d+)條', article_part).group(1), empty when nothing matches
RECURSIVE ArticleNumFrom(_, _)
ArticleNumFrom(part, i) ==
    IF i >= Len(part) THEN <<>>
    ELSE LET e == Numbered(part, i, Di, Tiao)
         IN  IF e # None THEN Slice(part, i + 1, e - 1) ELSE ArticleNumFrom(part, i + 1)

ArticleNum(part) == ArticleNumFrom(part, 0)

\* ---------------------------------------------------------------------- URLs

LawSingleBase ==
    <<"h", "t", "t", "p", "s", ":", "/", "/", "l", "a", "w", ".", "m", "o", "j",
      ".", "g", "o", "v", ".", "t", "w", "/", "L", "a", "w", "C", "l", "a", "s",
      "s", "/", "L", "a", "w", "S", "i", "n", "g", "l", "e", ".", "a", "s", "p",
      "x", "?", "p", "c", "o", "d", "e", "=">>

FlnoParam == <<"&", "f", "l", "n", "o", "=">>

LawAllBase ==
    <<"h", "t", "t", "p", "s", ":", "/", "/", "l", "a", "w", ".", "m", "o", "j",
      ".", "g", "o", "v", ".", "t", "w", "/", "L", "a", "w", "C", "l", "a", "s",
      "s", "/", "L", "a", "w", "A", "l", "l", ".", "a", "s", "p", "x", "?", "p",
      "c", "o", "d", "e", "=">>

\* a faulty variant: the whole-statute page whatever the citation
BuildUrlWholeStatute(pcode, article_part) == LawAllBase \o pcode

\* the url of an accepted match
BuildUrl(pcode, article_part) ==
    IF article_part # <<>>
    THEN LET article_num == ArticleNum(article_part)
         IN  IF article_num # <<>>
             THEN LawSingleBase \o pcode \o FlnoParam \o article_num
             ELSE LawAllBase \o pcode
    ELSE LawAllBase \o pcode

\* f"[{full_match}]({url})"
MakeLink(full_match, url) == <<"[">> \o full_match \o <<"]", "(">> \o url \o <<")">>

\* ------------------------------------------------------------------ sorting

\* sorted(keys, key=len, reverse=True): stable, so names of equal length keep
\* the order of the mapping
\* a faulty variant: a name goes before the names of its own length
RECURSIVE InsertByLenBeforeEqual(_, _)
InsertByLenBeforeEqual(name, sorted) ==
    IF sorted = <<>> THEN <<name>>
    ELSE IF Len(Head(sorted)) <= Len(name) THEN <<name>> \o sorted
    ELSE <<Head(sorted)>> \o InsertByLenBeforeEqual(name, Tail(sorted))

RECURSIVE InsertByLen(_, _)
InsertByLen(name, sorted) ==
    IF sorted = <<>> THEN <<name>>
    ELSE IF Len(Head(sorted)) < Len(name) THEN <<name>> \o sorted
    ELSE <<Head(sorted)>> \o InsertByLen(name, Tail(sorted))

RECURSIVE SortByLenDesc(_, _)
SortByLenDesc(names, sorted) ==
    IF names = <<>> THEN sorted
    ELSE SortByLenDesc(Tail(names), InsertByLen(Head(names), sorted))

\* replacements.sort(key=lambda x: x[0], reverse=True)
RECURSIVE InsertByStart(_, _)
InsertByStart(r, sorted) ==
    IF sorted = <<>> THEN <<r>>
    ELSE IF Head(sorted).start < r.start THEN <<r>> \o sorted
    ELSE <<Head(sorted)>> \o InsertByStart(r, Tail(sorted))

RECURSIVE SortByStartDesc(_, _)
SortByStartDesc(rs, sorted) ==
    IF rs = <<>> THEN sorted
    ELSE SortByStartDesc(Tail(rs), InsertByStart(Head(rs), sorted))

\* --------------------------------------------------------- the mapping file

\* dict.keys() / dict[name] of a mapping kept as its items in file order
Keys(mapping) == [k \in 1..Len(mapping) |-> mapping[k].name]

Pcode(mapping, law_name) ==
    LET k == CHOOSE k \in 1..Len(mapping) : mapping[k].name = law_name
    IN  mapping[k].pcode

\* a faulty variant: no except clause, what open() or json.load() raises escapes
LoadWithoutExcept(f) ==
    IF f.kind = "missing" THEN [value |-> <<>>, raised |-> FALSE]
    ELSE IF f.kind \in {"unreadable", "malformed"} THEN [value |-> <<>>, raised |-> TRUE]
    ELSE [value |-> f.items, raised |-> FALSE]

\* load_law_pcode_mapping: the file's items; {} when the file does not exist,
\* and {} after the warning when open() or json.load() raises
LoadLawPcodeMapping(f) ==
    IF f.kind = "missing" THEN [value |-> <<>>, raised |-> FALSE]
    ELSE IF f.kind \in {"unreadable", "malformed"} THEN [value |-> <<>>, raised |-> FALSE]
    ELSE [value |-> f.items, raised |-> FALSE]

\* ------------------------------------------------------- linkify_law_names

\* a faulty variant: only a match that starts inside a committed span counts
IsOverlappingStartInside(ranges, start, end) ==
    \E k \in 1..Len(ranges) : ranges[k][1] <= start /\ start < ranges[k][2]

\* a faulty variant: spans that only touch count as overlapping
IsOverlappingOrTouching(ranges, start, end) ==
    \E k \in 1..Len(ranges) : start <= ranges[k][2] /\ end >= ranges[k][1]

\* is_overlapping(start, end) over replaced_ranges
IsOverlapping(ranges, start, end) ==
    \E k \in 1..Len(ranges) : start < ranges[k][2] /\ end > ranges[k][1]

\* if not text or not LAW_PCODE_MAPPING: return text
ReturnsEarly(t, mapping) == t = <<>> \/ mapping = <<>>

\* a faulty variant: the label is the match without its first character
ReplacementShortLabel(t, m, pcode) ==
    LET full_match == Slice(t, m.start + 1, m.end)
    IN  [start |-> m.start, end |-> m.end, original |-> full_match,
         link |-> MakeLink(full_match, BuildUrl(pcode, ArticlePart(t, m)))]

\* the tuple appended to replacements for match m of law_name
Replacement(t, m, pcode) ==
    LET full_match == Slice(t, m.start, m.end)
    IN  [start |-> m.start, end |-> m.end, original |-> full_match,
         link |-> MakeLink(full_match, BuildUrl(pcode, ArticlePart(t, m)))]

\* result[:start] + link + result[end:]
Substitute(res, r) ==
    Slice(res, 0, r.start) \o r.link \o Slice(res, r.end, Len(res))

\* ----------------------------------------------------- linkify_law_section

Newline == "\n"

HeaderPhrases ==
    << <<"U+76F8", "U+95DC", "U+6CD5", "U+898F">>,
       <<"U+76F8", "U+95DC", "U+6CD5", "U+898F", "U+5F15", "U+7528">>,
       <<"U+5F15", "U+7528", "U+6CD5", "U+898F">>,
       <<"U+6CD5", "U+898F", "U+4F9D", "U+64DA">> >>

\* \s* from i, greedy
RECURSIVE WhitespaceEnd(_, _)
WhitespaceEnd(s, i) ==
    IF i < Len(s) /\ At(s, i) \in Whitespace THEN WhitespaceEnd(s, i + 1) ELSE i

\* re.search(r'(<phrase>[：:]\s*)', text).end(), or None
RECURSIVE HeaderEndFrom(_, _, _)
HeaderEndFrom(s, i, phrase) ==
    IF i >= Len(s) THEN None
    ELSE IF LiteralAt(s, i, phrase) /\ i + Len(phrase) < Len(s)
            /\ At(s, i + Len(phrase)) \in Colons
         THEN WhitespaceEnd(s, i + Len(phrase) + 1)
         ELSE HeaderEndFrom(s, i + 1, phrase)

\* the for loop over patterns: the end of the first pattern that matches
RECURSIVE FirstHeaderEnd(_, _)
FirstHeaderEnd(s, k) ==
    IF k > Len(HeaderPhrases) THEN None
    ELSE LET e == HeaderEndFrom(s, 0, HeaderPhrases[k])
         IN  IF e # None THEN e ELSE FirstHeaderEnd(s, k + 1)

\* header_end + re.match(r'^[\s\n]*', text[header_end:]).end()
ContentStart(s, header_end) == WhitespaceEnd(s, header_end)

\* \n\n\n|\n\n(?=[^《「『【\n]) at i
BreakAt(s, i) ==
    \/ LiteralAt(s, i, <<Newline, Newline, Newline>>)
    \/ /\ LiteralAt(s, i, <<Newline, Newline>>)
       /\ i + 2 < Len(s)
       /\ At(s, i + 2) \notin (OpenBrackets \cup {Newline})

\* content_start + re.search(..., remaining).start(), or len(text)
RECURSIVE EndPosFrom(_, _)
EndPosFrom(s, i) ==
    IF i >= Len(s) THEN Len(s)
    ELSE IF BreakAt(s, i) THEN i ELSE EndPosFrom(s, i + 1)

\* a faulty variant: the region ends at any blank line, whatever follows it
EndPosAtBlankLine(s, from) ==
    LET breaks == {i \in from..(Len(s) - 1) : LiteralAt(s, i, <<"\n", "\n">>)}
    IN  IF breaks = {} THEN Len(s) ELSE CHOOSE i \in breaks : \A j \in breaks : i <= j

EndPos(s, from) == EndPosFrom(s, from)

\* a faulty variant: the names left in the order of the mapping, not sorted by length
KeysInFileOrder(mapping) == Keys(mapping)

\* SORTED_LAW_NAMES
SortedLawNames(mapping) == SortByLenDesc(Keys(mapping), <<>>)

\* a faulty variant: replacements left in the order they were committed
UnsortedReplacements(rs) == rs

\* replacements after the sort, rightmost first
SortedReplacements(rs) == SortByStartDesc(rs, <<>>)

\* text[:content_start] + linked_section + text[end_pos:]
Splice(s, content_start, end_pos, linked_section) ==
    Slice(s, 0, content_start) \o linked_section \o Slice(s, end_pos, Len(s))

\* -------------------------------------------------------------------- inputs

\* bounds: pieces per free text, names per mapping file of the free inputs
MaxTokens == 3
MaxNames == 2

LawA == "U+52DE"
LawB == "U+57FA"
LawC == "U+6CD5"

\* statute names of the mapping file, and their pcodes: one name a strict
\* prefix of two others, one that overlaps itself, two of one length that
\* overlap each other
NameAB  == <<LawA, LawB>>
NameABC == <<LawA, LawB, LawC>>
NameABA == <<LawA, LawB, LawA>>

\* a third name of that length, which overlaps the start of both
NameCAB == <<LawC, LawA, LawB>>

LawNames == {NameAB, NameABC, NameABA}

PcodeOf(name) ==
    <<"N", "0", "0", "3", "0", "0", "0">>
    \o (IF name = NameAB THEN <<"1">> ELSE IF name = NameABC THEN <<"2">>
        ELSE IF name = NameABA THEN <<"3">> ELSE <<"4">>)

\* the items of a mapping file: up to MaxNames distinct names, in any order
ItemsOf(names) ==
    [k \in 1..Len(names) |-> [name |-> names[k], pcode |-> PcodeOf(names[k])]]

NameOrders ==
    UNION { {g \in [1..n -> LawNames] : \A i, j \in 1..n : i # j => g[i] # g[j]} :
              n \in 0..MaxNames }

MappingItems == { ItemsOf(g) : g \in NameOrders }

Files ==
    {[kind |-> k, items |-> <<>>] : k \in {"missing", "unreadable", "malformed"}}
    \cup {[kind |-> "ok", items |-> it] : it \in MappingItems}

FileOf(names) == [kind |-> "ok", items |-> ItemsOf(names)]

RECURSIVE Flatten(_)
Flatten(ts) == IF ts = <<>> THEN <<>> ELSE Head(ts) \o Flatten(Tail(ts))

\* the texts made of up to n of the given pieces
TextsOf(pieces, n) ==
    { Flatten(f) : f \in UNION { [1..k -> pieces] : k \in 0..n } }

\* free texts: names and parts of names, brackets that pair and that do not,
\* an article number, other text
CorePieces ==
    { NameAB, <<LawA>>, <<LawC>>, <<"U+300A">>, <<"U+300B">>, <<"U+300D">>,
      <<Di, "1", Tiao>>, <<"x">> }

CoreTexts == TextsOf(CorePieces, MaxTokens)

\* citations: a name, bracketed or not, and after it each part of the
\* citation suffix present, absent or broken
Empty == {<<>>}

CiteTexts ==
    { Flatten(<<<<"U+4F9D">>, o, NameAB, c, art, zhi, xiang, kuan, dan, post>>) :
        o \in Empty \cup {<<"U+300A">>},
        c \in Empty \cup {<<"U+300B">>},
        art \in Empty \cup {<<Di, "1", "1", Tiao>>, <<Di, "U+FF13", "8", Tiao>>,
                            <<Di, Tiao>>, <<Di, "7">>},
        zhi \in Empty \cup {<<Zhi, "2">>, <<Zhi>>},
        xiang \in Empty \cup {<<Di, "1", Xiang>>},
        kuan \in Empty \cup {<<Di, "5", Kuan>>},
        dan \in Empty \cup {<<Dan, Shu>>},
        post \in Empty \cup {<<"U+898F", "U+5B9A">>} }

CiteFiles == {FileOf(<<NameAB>>), FileOf(<<NameAB, NameABC>>)}

\* answers with a "related statutes" section: text before the header, the
\* header, whitespace, a citation list, a break, text after it
Header(phrase, colon) == phrase \o <<colon>>

SectionTexts ==
    { Flatten(<<pre, hdr, ws, body, br, post>>) :
        pre \in Empty \cup {NameAB \o <<Newline>>,
                            Header(HeaderPhrases[4], ":") \o NameAB \o <<Newline, Newline, "x">>},
        hdr \in {Header(HeaderPhrases[1], ":"), Header(HeaderPhrases[2], "U+FF1A"),
                 Header(HeaderPhrases[3], ":"), HeaderPhrases[1]},
        ws \in Empty \cup {<<Newline>>, <<" ", Newline, Newline>>},
        body \in Empty \cup {NameAB, <<"U+300A">> \o NameAB \o <<"U+300B", Di, "9", Tiao>>},
        br \in Empty \cup {<<Newline>>, <<Newline, Newline>>,
                           <<Newline, Newline, Newline>>},
        post \in Empty \cup {NameAB, <<"U+300A">> \o NameAB \o <<"U+300B">>,
                             <<"x">> \o NameAB, <<Newline>> \o NameAB,
                             <<"U+300A">> \o NameAB
                                 \o <<"U+300B", Newline, Newline, "x">> \o NameAB} }

SectionFiles == {FileOf(<<NameAB>>), FileOf(<<NameABA, NameAB>>)}

\* ties: two or three names of one length whose matches overlap, and a
\* shorter one
TieTexts ==
    { Flatten(<<pre, NameAB, NameAB, post>>) :
        pre \in Empty \cup {<<LawC>>, <<"x">>},
        post \in Empty \cup {<<LawC>>, <<LawA>>, <<LawC, Di, "1", Tiao>>} }

TieFiles ==
    {FileOf(<<NameCAB, NameABA, NameABC>>), FileOf(<<NameCAB, NameABC, NameABA>>),
     FileOf(<<NameABA, NameAB, NameABC>>), FileOf(<<NameAB, NameABC, NameABA>>)}

\* --------------------------------------------------------------------- state

VARIABLES
    file,               \* data/law_pcode_mapping.json
    LAW_PCODE_MAPPING,  \* the loaded mapping, items in file order
    SORTED_LAW_NAMES,
    raised,             \* an exception has escaped
    answer,             \* result['answer'], the text handed to the entry point
    pc,                 \* "boot", "idle", "scan", "subst", "done"
    caller,             \* who called linkify_law_names: "main", "section", "again"
    text,               \* linkify_law_names: its argument
    law_i,              \* index of law_name in SORTED_LAW_NAMES
    pending,            \* the matches re.finditer has still to yield
    replaced_ranges,
    replacements,
    result,
    next_r,             \* index of the next replacement to apply
    content_start,      \* linkify_law_section: the scoped region
    end_pos,
    output,             \* what the entry point returned
    first,              \* the output of the call before this one
    log                 \* history: every match examined, with its name and fate

vars == <<file, LAW_PCODE_MAPPING, SORTED_LAW_NAMES, raised, answer, pc, caller,
          text, law_i, pending, replaced_ranges, replacements, result, next_r,
          content_start, end_pos, output, first, log>>

loaded == <<file, LAW_PCODE_MAPPING, SORTED_LAW_NAMES, raised>>
section == <<content_start, end_pos>>

Init ==
    /\ \/ file \in Files /\ answer \in CoreTexts
       \/ file \in CiteFiles /\ answer \in CiteTexts
       \/ file \in SectionFiles /\ answer \in SectionTexts
       \/ file \in TieFiles /\ answer \in TieTexts
    /\ LAW_PCODE_MAPPING = <<>>
    /\ SORTED_LAW_NAMES = <<>>
    /\ raised = FALSE
    /\ pc = "boot"
    /\ caller = "none"
    /\ text = <<>>
    /\ law_i = 0
    /\ pending = <<>>
    /\ replaced_ranges = <<>>
    /\ replacements = <<>>
    /\ result = <<>>
    /\ next_r = 0
    /\ content_start = None
    /\ end_pos = None
    /\ output = <<>>
    /\ first = <<>>
    /\ log = <<>>

\* ------------------------------------------------------------------- actions

\* module import: LAW_PCODE_MAPPING = load_law_pcode_mapping(); SORTED_LAW_NAMES
Load ==
    /\ pc = "boot"
    /\ LET got == LoadLawPcodeMapping(file)
       IN  IF got.raised
           THEN /\ raised' = TRUE
                /\ pc' = "crashed"
                /\ UNCHANGED <<LAW_PCODE_MAPPING, SORTED_LAW_NAMES>>
           ELSE /\ LAW_PCODE_MAPPING' = got.value
                /\ SORTED_LAW_NAMES' = SortedLawNames(got.value)
                /\ pc' = "idle"
                /\ UNCHANGED raised
    /\ UNCHANGED <<file, answer, caller, text, law_i, pending, replaced_ranges,
                   replacements, result, next_r, section, output, first, log>>

\* linkify_law_names(t) entered on behalf of who: the early return, or the
\* locals of a scan
Enter(t, who) ==
    /\ caller' = who
    /\ text' = t
    /\ replaced_ranges' = <<>>
    /\ replacements' = <<>>
    /\ log' = <<>>
    /\ law_i' = 1
    /\ pending' = IF ReturnsEarly(t, LAW_PCODE_MAPPING) THEN <<>>
                  ELSE FindIter(t, SORTED_LAW_NAMES[1])
    /\ next_r' = 0
    /\ IF ReturnsEarly(t, LAW_PCODE_MAPPING)
       THEN /\ result' = t
            /\ pc' = "return"
       ELSE /\ result' = <<>>
            /\ pc' = "scan"

\* main: answer_with_links = linkify_law_names(result['answer'])
CallNames ==
    /\ pc = "idle"
    /\ Enter(answer, "main")
    /\ UNCHANGED <<loaded, answer, section, output, first>>

\* linkify_law_section(answer) up to its call of linkify_law_names
CallSection ==
    /\ pc = "idle"
    /\ LET header_end == IF answer = <<>> THEN None ELSE FirstHeaderEnd(answer, 1)
       IN  IF header_end = None
           THEN /\ output' = answer
                /\ pc' = "done"
                /\ caller' = "section"
                /\ UNCHANGED <<text, law_i, pending, replaced_ranges, replacements,
                               result, next_r, section, log>>
           ELSE LET cs == ContentStart(answer, header_end)
                    ep == EndPos(answer, cs)
                IN  /\ content_start' = cs
                    /\ end_pos' = ep
                    /\ Enter(Slice(answer, cs, ep), "section")
                    /\ UNCHANGED output
    /\ UNCHANGED <<loaded, answer, first>>

\* linkify_law_names called again, on what the call from main returned
CallAgain ==
    /\ pc = "done"
    /\ caller = "main"
    /\ first' = output
    /\ Enter(output, "again")
    /\ UNCHANGED <<loaded, answer, section, output>>

law_name == SORTED_LAW_NAMES[law_i]

Scanning == pc = "scan" /\ law_i <= Len(SORTED_LAW_NAMES)

Examined(m, skipped) ==
    [law_name |-> law_name, start |-> m.start, end |-> m.end, g1 |-> m.g1,
     skipped |-> skipped, before |-> Len(replaced_ranges)]

\* for match in re.finditer(pattern, text): if is_overlapping(start, end): continue
SkipMatch ==
    /\ Scanning
    /\ pending # <<>>
    /\ LET m == Head(pending)
       IN  /\ IsOverlapping(replaced_ranges, m.start, m.end)
           /\ log' = Append(log, Examined(m, TRUE))
    /\ pending' = Tail(pending)
    /\ UNCHANGED <<loaded, answer, pc, caller, text, law_i, replaced_ranges,
                   replacements, result, next_r, section, output, first>>

\* replacements.append(...); replaced_ranges.append((start, end))
CommitMatch ==
    /\ Scanning
    /\ pending # <<>>
    /\ LET m == Head(pending)
       IN  /\ ~IsOverlapping(replaced_ranges, m.start, m.end)
           /\ replacements' = Append(replacements,
                  Replacement(text, m, Pcode(LAW_PCODE_MAPPING, law_name)))
           /\ replaced_ranges' = Append(replaced_ranges, <<m.start, m.end>>)
           /\ log' = Append(log, Examined(m, FALSE))
    /\ pending' = Tail(pending)
    /\ UNCHANGED <<loaded, answer, pc, caller, text, law_i, result, next_r,
                   section, output, first>>

\* the iterator is exhausted: the next law_name and its pattern
NextName ==
    /\ Scanning
    /\ pending = <<>>
    /\ law_i' = law_i + 1
    /\ pending' = IF law_i + 1 <= Len(SORTED_LAW_NAMES)
                  THEN FindIter(text, SORTED_LAW_NAMES[law_i + 1])
                  ELSE <<>>
    /\ UNCHANGED <<loaded, answer, pc, caller, text, replaced_ranges,
                   replacements, result, next_r, section, output, first, log>>

\* replacements.sort(...); result = text
SortReplacements ==
    /\ pc = "scan"
    /\ law_i > Len(SORTED_LAW_NAMES)
    /\ replacements' = SortedReplacements(replacements)
    /\ result' = text
    /\ next_r' = 1
    /\ pc' = "subst"
    /\ UNCHANGED <<loaded, answer, caller, text, law_i, pending, replaced_ranges,
                   section, output, first, log>>

\* result = result[:start] + link + result[end:]
ApplyNext ==
    /\ pc = "subst"
    /\ next_r <= Len(replacements)
    /\ result' = Substitute(result, replacements[next_r])
    /\ next_r' = next_r + 1
    /\ UNCHANGED <<loaded, answer, pc, caller, text, law_i, pending, replaced_ranges,
                   replacements, section, output, first, log>>

\* return result, and what the caller makes of it
Return ==
    /\ \/ pc = "return"
       \/ pc = "subst" /\ next_r > Len(replacements)
    /\ output' = IF caller = "section"
                 THEN Splice(answer, content_start, end_pos, result)
                 ELSE result
    /\ pc' = "done"
    /\ UNCHANGED <<loaded, answer, caller, text, law_i, pending, replaced_ranges,
                   replacements, result, next_r, section, first, log>>

Next ==
    \/ Load
    \/ CallNames
    \/ CallSection
    \/ CallAgain
    \/ SkipMatch
    \/ CommitMatch
    \/ NextName
    \/ SortReplacements
    \/ ApplyNext
    \/ Return

Spec == Init /\ [][Next]_vars

\* ---------------------------------------------------------------- properties

AllMatches(t, n) == FindIter(t, n)

\* name n stands in t at offset p
OccursAt(t, p, n) ==
    p + Len(n) <= Len(t) /\ SubSeq(t, p + 1, p + Len(n)) = n

Range(f) == {f[k] : k \in DOMAIN f}

\* half-open spans [a1, b1) and [a2, b2) share a character
Overlap(a1, b1, a2, b2) == a1 < b2 /\ a2 < b1

IsStrictPrefix(short, long) ==
    Len(short) < Len(long) /\ SubSeq(long, 1, Len(short)) = short

IndexIn(mapping, n) == CHOOSE k \in 1..Len(mapping) : mapping[k].name = n

\* longest first, then the order of the mapping
ScannedBefore(mapping, n1, n2) ==
    \/ Len(n1) > Len(n2)
    \/ Len(n1) = Len(n2) /\ IndexIn(mapping, n1) < IndexIn(mapping, n2)

MapNames == Range(Keys(LAW_PCODE_MAPPING))

\* the scan of the current call is over
ScanOver == pc \in {"subst", "done"} /\ ~ReturnsEarly(text, LAW_PCODE_MAPPING)

\* match m of name n overlaps no match of a name scanned before n
Unrivalled(t, n, m) ==
    \A n2 \in MapNames :
        ScannedBefore(LAW_PCODE_MAPPING, n2, n) =>
            \A m2 \in Range(AllMatches(t, n2)) :
                ~Overlap(m.start, m.end, m2.start, m2.end)

Committed == {e \in Range(log) : ~e.skipped}

\* the replacements whose span shares a character with [a, b)
LinksOver(a, b) == {r \in Range(replacements) : Overlap(r.start, r.end, a, b)}

\* C1 as claimed: every occurrence of the longer of two names, one a strict
\* prefix of the other, lies under exactly one link, whose label covers the
\* whole longer name, and no link of the shorter name lies over its prefix.
C1_EveryOccurrence ==
    ScanOver =>
        \A long \in MapNames, short \in MapNames :
            IsStrictPrefix(short, long) =>
                \A p \in 0..Len(text) :
                    OccursAt(text, p, long) =>
                        /\ Cardinality(LinksOver(p, p + Len(long))) = 1
                        /\ \A r \in LinksOver(p, p + Len(long)) :
                               r.start <= p /\ p + Len(long) <= r.end
                        /\ ~\E e \in Committed :
                               /\ e.law_name = short
                               /\ Overlap(e.start, e.end, p, p + Len(short))

\* C1, amended: an occurrence of the longer name that the scan yields as a
\* match, and that overlaps no match of a name scanned before the longer name,
\* becomes exactly one link, whose label is the whole match and so covers the
\* whole longer name; the shorter name has no link of its own over it.
C1_LongerNameWins ==
    ScanOver =>
        \A long \in MapNames, short \in MapNames :
            IsStrictPrefix(short, long) =>
                \A m \in Range(AllMatches(text, long)) :
                    Unrivalled(text, long, m) =>
                        /\ Cardinality(LinksOver(m.start, m.end)) = 1
                        /\ \A r \in LinksOver(m.start, m.end) :
                               /\ r.start = m.start /\ r.end = m.end
                               /\ r.original = Slice(text, m.start, m.end)
                               /\ \E p \in m.start..(m.end - Len(long)) :
                                      OccursAt(r.original, p - m.start, long)
                        /\ ~\E e \in Committed :
                               /\ e.law_name = short
                               /\ Overlap(e.start, e.end, m.start, m.end)

\* the longer name was linked where the shorter one also matched and was skipped
C1_Witness ==
    /\ pc = "done"
    /\ \E long \in MapNames, short \in MapNames :
        /\ IsStrictPrefix(short, long)
        /\ \E m \in Range(AllMatches(text, long)) :
            /\ Unrivalled(text, long, m)
            /\ \E e \in Range(log) :
                /\ e.law_name = short /\ e.skipped
                /\ Overlap(e.start, e.end, m.start, m.end)
            /\ \E e \in Committed : e.law_name = short

\* the committed match that a replacement came from
EntryOf(r) == CHOOSE e \in Committed : e.start = r.start

\* the digits between the first character of s and the first Tiao after it
RECURSIVE UpToTiao(_, _)
UpToTiao(s, i) ==
    IF i >= Len(s) \/ At(s, i) = Tiao THEN <<>> ELSE <<At(s, i)>> \o UpToTiao(s, i + 1)

\* the text of the scenario of the design: a citation with item and
\* paragraph, in running text
ScenarioText ==
    <<"U+4F9D">> \o NameAB \o <<Di, "1", "1", Tiao, Di, "1", Xiang, Di, "5", Kuan,
                               "U+898F", "U+5B9A">>

ScenarioOutput ==
    <<"U+4F9D", "[">> \o NameAB
    \o <<Di, "1", "1", Tiao, Di, "1", Xiang, Di, "5", Kuan, "]", "(">>
    \o LawSingleBase \o <<"N", "0", "0", "3", "0", "0", "0", "1">>
    \o <<"&", "f", "l", "n", "o", "=", "1", "1", ")", "U+898F", "U+5B9A">>

\* C2: the link of every accepted match is [label](url) with url the
\* single-article page of the name's pcode and of the digits of the leading
\* article number when the match has a citation suffix, and the whole-statute
\* page of the pcode when it has none; nothing of the suffix after the article
\* number is in the url.  The scenario of the design gives the link it names.
C2_UrlOfMatch ==
    /\ ScanOver =>
        \A r \in Range(replacements) :
            LET e == EntryOf(r)
                pcode == PcodeOf(e.law_name)
                label == Slice(text, e.start, e.end)
                url == IF e.g1 # None
                       THEN LawSingleBase \o pcode \o <<"&", "f", "l", "n", "o", "=">>
                            \o UpToTiao(text, e.g1 + 1)
                       ELSE LawAllBase \o pcode
            IN  r.link = <<"[">> \o label \o <<"]", "(">> \o url \o <<")">>
    /\ (pc = "done" /\ caller = "main" /\ answer = ScenarioText
            /\ file = FileOf(<<NameAB>>)) => output = ScenarioOutput

\* the scenario has been linkified, and a match without a suffix as well
C2_Witness ==
    /\ pc = "done" /\ caller = "main"
    /\ answer = ScenarioText
    /\ file = FileOf(<<NameAB>>)
    /\ \E r \in Range(replacements) : EntryOf(r).g1 # None /\ r.end - EntryOf(r).g1 > 4

\* C3 as claimed: every name of the mapping that stands in the text with no
\* citation suffix after it has a whole-statute link of its own pcode in the
\* output, labelled with the text of the matched span.
HasLink(res, link) == \E i \in 0..Len(res) : LiteralAt(res, i, link)

BareOccurrence(t, n, p) ==
    /\ OccursAt(t, p, n)
    /\ ArticlePartEnd(t, p + Len(n)) = None
    /\ ~(p + Len(n) < Len(t) /\ At(t, p + Len(n)) \in CloseBrackets
            /\ ArticlePartEnd(t, p + Len(n) + 1) # None)

C3_EveryBareName ==
    (pc = "done" /\ ~ReturnsEarly(text, LAW_PCODE_MAPPING)) =>
        \A n \in MapNames :
            \A p \in 0..Len(text) :
                BareOccurrence(text, n, p) =>
                    \E r \in Range(replacements) :
                        /\ r.start <= p /\ p + Len(n) <= r.end
                        /\ r.link = <<"[">> \o Slice(text, r.start, r.end) \o <<"]", "(">>
                                    \o LawAllBase \o PcodeOf(n) \o <<")">>
                        /\ HasLink(result, r.link)

\* C3, amended: every match of a name that the scan yields with no citation
\* suffix, and that overlaps no match of a name scanned before it, has a
\* whole-statute link of the name's pcode in the output, labelled with the
\* text of the matched span.
C3_BareNameLinked ==
    (pc = "done" /\ ~ReturnsEarly(text, LAW_PCODE_MAPPING)) =>
        \A n \in MapNames :
            \A m \in Range(AllMatches(text, n)) :
                (m.g1 = None /\ Unrivalled(text, n, m)) =>
                    \E r \in Range(replacements) :
                        /\ r.start = m.start /\ r.end = m.end
                        /\ r.link = <<"[">> \o Slice(text, m.start, m.end) \o <<"]", "(">>
                                    \o LawAllBase \o PcodeOf(n) \o <<")">>
                        /\ HasLink(result, r.link)
                        /\ HasLink(output, r.link)

\* a bare name in brackets was linked, under a mapping of two names
C3_Witness ==
    /\ pc = "done" /\ caller = "main"
    /\ \E n \in MapNames :
        \E m \in Range(AllMatches(text, n)) :
            /\ m.g1 = None /\ Unrivalled(text, n, m)
            /\ m.end - m.start = Len(n) + 2
    /\ Len(LAW_PCODE_MAPPING) = 2

\* the replacements from left to right
RECURSIVE Reverse(_)
Reverse(q) == IF q = <<>> THEN <<>> ELSE Reverse(Tail(q)) \o <<Head(q)>>

LeftToRight == Reverse(SortByStartDesc(replacements, <<>>))

UrlBases == {LawSingleBase, LawAllBase}

\* a link is [label](url), the url one of the two pages
WellFormedLink(link, label) ==
    /\ Len(link) > Len(label) + 4
    /\ Slice(link, 0, Len(label) + 3) = <<"[">> \o label \o <<"]", "(">>
    /\ link[Len(link)] = ")"
    /\ \E base \in UrlBases : LiteralAt(link, Len(label) + 3, base)

Failed == <<"failed">>

\* res with each link of rs, leftmost first, replaced by the label found
\* inside it; Failed when a link is not where its span starts
RECURSIVE Unwrapped(_, _)
Unwrapped(res, rs) ==
    IF rs = <<>> THEN res
    ELSE LET r == Head(rs)
             n == r.end - r.start
         IN  IF ~LiteralAt(res, r.start, r.link) THEN Failed
             ELSE Unwrapped(Slice(res, 0, r.start)
                            \o Slice(res, r.start + 1, r.start + 1 + n)
                            \o Slice(res, r.start + Len(r.link), Len(res)),
                            Tail(rs))

CallReturned == pc = "done" /\ caller # "none" /\ ~(caller = "section" /\ content_start = None)

\* C4: the output is the input with links wrapped around the committed
\* spans and nothing else changed: each link is [label](url) with label the
\* text of its span, and putting the label back in place of each link gives
\* the input again.
C4_OnlyWrapping ==
    (CallReturned /\ ~ReturnsEarly(text, LAW_PCODE_MAPPING)) =>
        /\ \A r \in Range(replacements) :
               WellFormedLink(r.link, Slice(text, r.start, r.end))
        /\ Unwrapped(result, LeftToRight) = text

\* a bracketed name with a citation suffix was wrapped, between other text
C4_Witness ==
    /\ pc = "done" /\ caller = "main"
    /\ \E r \in Range(replacements) :
        /\ r.start > 0 /\ r.end < Len(text)
        /\ At(text, r.start) \in OpenBrackets
        /\ EntryOf(r).g1 # None

\* the links put all at once at their spans in t, rs from left to right
RECURSIVE AllAtOnce(_, _, _)
AllAtOnce(t, from, rs) ==
    IF rs = <<>> THEN Slice(t, from, Len(t))
    ELSE Slice(t, from, Head(rs).start) \o Head(rs).link
         \o AllAtOnce(t, Head(rs).end, Tail(rs))

\* C5: substituting the committed matches one by one, rightmost first, gives
\* what substituting them all at once at their offsets in the input gives.
C5_OneByOneIsAllAtOnce ==
    (CallReturned /\ ~ReturnsEarly(text, LAW_PCODE_MAPPING)) =>
        result = AllAtOnce(text, 0, LeftToRight)

\* two matches were committed left one first, so that the sort reordered them
C5_Witness ==
    /\ pc = "done" /\ caller = "main"
    /\ Len(replaced_ranges) >= 2
    /\ replaced_ranges[1][1] < replaced_ranges[2][1]
    /\ Len(result) > Len(text)

\* C6: a text in which no name of the mapping occurs comes back unchanged.
NoNameOccurs(t) ==
    \A n \in MapNames : \A p \in 0..Len(t) : ~OccursAt(t, p, n)

C6_NoNameNoChange ==
    (pc = "done" /\ caller \in {"main", "section"} /\ NoNameOccurs(answer)) =>
        output = answer

\* a text with part of a name, a bracket and an article number, but no name,
\* went through the scan of a mapping of two names
C6_Witness ==
    /\ pc = "done" /\ caller = "main"
    /\ Len(LAW_PCODE_MAPPING) = 2
    /\ NoNameOccurs(answer)
    /\ \E p \in 0..(Len(answer) - 2) :
           At(answer, p) = LawA /\ At(answer, p + 1) = Di
    /\ output = answer

\* C7: a mapping file that is missing, unreadable or malformed loads as the
\* empty mapping and nothing is raised; with an empty mapping or an empty
\* text linkify_law_names returns its input and raises nothing.
C7_DegradesToIdentity ==
    /\ (pc # "boot" /\ file.kind # "ok") =>
           /\ LAW_PCODE_MAPPING = <<>>
           /\ ~raised
           /\ pc # "crashed"
    /\ (pc = "done" /\ caller \in {"main", "again"}
            /\ (LAW_PCODE_MAPPING = <<>> \/ text = <<>>)) =>
           /\ output = text
           /\ replacements = <<>>
           /\ ~raised

\* a text with a name came back unchanged after the file failed to parse
C7_Witness ==
    /\ pc = "done" /\ caller = "main"
    /\ file.kind = "malformed"
    /\ \E p \in 0..Len(answer) : OccursAt(answer, p, NameAB)
    /\ output = answer

\* where a header ends: one of the phrases, then a colon
HeaderEnds(t) ==
    { e \in 1..Len(t) : \E ph \in Range(HeaderPhrases) :
          /\ e - 1 - Len(ph) >= 0
          /\ OccursAt(t, e - 1 - Len(ph), ph)
          /\ At(t, e - 1) \in Colons }

\* the first offset from h on that holds no whitespace
RegionStart(t, h) ==
    CHOOSE c \in h..Len(t) :
        /\ \A j \in h..(c - 1) : At(t, j) \in Whitespace
        /\ c = Len(t) \/ At(t, c) \notin Whitespace

\* a paragraph break that does not open a bracketed citation: two newlines,
\* and after them a character that is no opening bracket
ParagraphBreak(t, p) ==
    /\ p + 2 < Len(t)
    /\ At(t, p) = Newline /\ At(t, p + 1) = Newline
    /\ At(t, p + 2) \notin OpenBrackets

RegionEnd(t, c) ==
    CHOOSE e \in c..Len(t) :
        /\ \A p \in c..(e - 1) : ~ParagraphBreak(t, p)
        /\ e = Len(t) \/ ParagraphBreak(t, e)

\* C8: linkify_law_section returns a text with no recognized header as it is;
\* otherwise the region runs from the end of a header and of the whitespace
\* after it to the next paragraph break that opens no bracketed citation, or
\* to the end of the text; what is before and after the region is returned
\* as it is, and the region is replaced by what linkify_law_names makes of it.
C8_OnlyTheRegion ==
    (pc = "done" /\ caller = "section") =>
        IF HeaderEnds(answer) = {} THEN output = answer
        ELSE \E h \in HeaderEnds(answer) :
                LET c == RegionStart(answer, h)
                    e == RegionEnd(answer, c)
                    after == Len(answer) - e
                IN  /\ text = Slice(answer, c, e)
                    /\ Len(output) >= c + after
                    /\ Slice(output, 0, c) = Slice(answer, 0, c)
                    /\ Slice(output, Len(output) - after, Len(output))
                           = Slice(answer, e, Len(answer))
                    /\ Slice(output, c, Len(output) - after) = result
                    /\ result = IF ReturnsEarly(text, LAW_PCODE_MAPPING) THEN text
                                ELSE AllAtOnce(text, 0, LeftToRight)

\* a region that goes over a blank line before a bracketed citation and ends
\* at the next one, with a name before the header and one after the region,
\* both left as they were
C8_Witness ==
    /\ pc = "done" /\ caller = "section"
    /\ content_start # None
    /\ OccursAt(answer, 0, NameAB) /\ OccursAt(output, 0, NameAB)
    /\ end_pos < Len(answer)
    /\ \E p \in content_start..(end_pos - 3) :
           /\ At(answer, p) = Newline /\ At(answer, p + 1) = Newline
           /\ At(answer, p + 2) \in OpenBrackets
    /\ Len(replacements) = 2
    /\ OccursAt(output, Len(output) - 2, NameAB)

\* C9 as claimed: a second call, on the output of the first, returns that
\* output as it is.
C9_Idempotent ==
    (pc = "done" /\ caller = "again") => output = first

\* C9, amended: a second call returns the output of the first as it is
\* exactly when the first call put in no link; when it put in one, the second
\* call wraps a statute reference inside a label of the first in a link again.
C9_WrapsAgain ==
    (pc = "done" /\ caller = "again") =>
        /\ output = first <=> first = answer
        /\ first # answer =>
               /\ Len(output) > Len(first)
               /\ \E r \in Range(replacements) :
                      \E p \in 0..r.start :
                          /\ At(first, p) = "["
                          /\ \A q \in p..(r.end - 1) : At(first, q) # "]"
                          /\ r.end < Len(first) /\ \E q \in r.end..(Len(first) - 2) :
                                 /\ At(first, q) = "]" /\ At(first, q + 1) = "("
                                 /\ \A q2 \in r.end..(q - 1) : At(first, q2) # "["

\* the second call wrapped the label of a link of the first
C9_Witness ==
    /\ pc = "done" /\ caller = "again"
    /\ first # answer
    /\ output # first
    /\ \E r \in Range(replacements) : r.start > 0 /\ At(first, r.start - 1) = "["

\* C10: at every point of a call the committed spans are pairwise disjoint as
\* half-open intervals; a match was skipped exactly when it overlapped a span
\* committed before it; and of two committed matches the one of the longer
\* name was committed first and the other does not overlap it.
C10_FirstCommittedWins ==
    /\ \A i, j \in DOMAIN replaced_ranges :
           i < j => ~Overlap(replaced_ranges[i][1], replaced_ranges[i][2],
                             replaced_ranges[j][1], replaced_ranges[j][2])
    /\ \A k \in DOMAIN log :
           /\ log[k].before <= Len(replaced_ranges)
           /\ log[k].skipped <=>
                  \E j \in 1..log[k].before :
                      Overlap(replaced_ranges[j][1], replaced_ranges[j][2],
                              log[k].start, log[k].end)
    /\ \A i, j \in DOMAIN log :
           (~log[i].skipped /\ ~log[j].skipped
                /\ Len(log[i].law_name) > Len(log[j].law_name)) =>
               /\ i < j
               /\ ~Overlap(log[i].start, log[i].end, log[j].start, log[j].end)
    /\ Len(replaced_ranges) = Cardinality({k \in DOMAIN log : ~log[k].skipped})

\* a match of a shorter name was skipped under a longer one and another of
\* its matches was committed beside it
C10_Witness ==
    /\ pc = "scan"
    /\ Len(replaced_ranges) = 2
    /\ \E i, j \in DOMAIN log :
           /\ log[i].skipped /\ ~log[j].skipped
           /\ log[i].law_name = log[j].law_name
           /\ \E k \in DOMAIN log : Len(log[k].law_name) > Len(log[i].law_name)

\* the closing bracket that pairs with an opening one
Counterpart(open) ==
    IF open = "U+300A" THEN "U+300B"
    ELSE IF open = "U+300C" THEN "U+300D"
    ELSE IF open = "U+300E" THEN "U+300F"
    ELSE "U+3011"

\* the span of examined match e starts with an opening bracket before the name
LeadsWithBracket(t, e) ==
    At(t, e.start) \in OpenBrackets /\ OccursAt(t, e.start + 1, e.law_name)

\* where the name of examined match e ends
NameEnd(t, e) ==
    (IF LeadsWithBracket(t, e) THEN e.start + 1 ELSE e.start) + Len(e.law_name)

\* the span of e holds a closing bracket right after the name
TrailsWithBracket(t, e) ==
    NameEnd(t, e) < e.end /\ At(t, NameEnd(t, e)) \in CloseBrackets

\* C11: in every accepted match a closing bracket after the name is inside
\* the span only when the span starts with an opening bracket and the closing
\* one is its counterpart; an unpaired or mismatched closing bracket is left
\* outside the link label.
C11_BracketsPair ==
    \A e \in Committed :
        TrailsWithBracket(text, e) =>
            /\ LeadsWithBracket(text, e)
            /\ At(text, NameEnd(text, e)) = Counterpart(At(text, e.start))

\* match m of name n was examined and committed, or examined and skipped
IsCommitted(n, m) ==
    \E e \in Committed : e.law_name = n /\ e.start = m.start /\ e.end = m.end

IsSkipped(n, m) ==
    \E e \in Range(log) :
        e.skipped /\ e.law_name = n /\ e.start = m.start /\ e.end = m.end

\* the names are scanned longest first, names of one length in the order of
\* the mapping
StableOrder ==
    (pc \notin {"boot", "crashed"}) =>
        /\ Len(SORTED_LAW_NAMES) = Len(LAW_PCODE_MAPPING)
        /\ Range(SORTED_LAW_NAMES) = MapNames
        /\ \A i, j \in DOMAIN SORTED_LAW_NAMES :
               i < j => ScannedBefore(LAW_PCODE_MAPPING,
                                      SORTED_LAW_NAMES[i], SORTED_LAW_NAMES[j])
        /\ \A i, j \in DOMAIN log :
               i < j => \/ log[i].law_name = log[j].law_name
                        \/ ScannedBefore(LAW_PCODE_MAPPING,
                                         log[i].law_name, log[j].law_name)

\* two names of one length, n1 before n2 in the mapping
Tied(n1, n2) ==
    /\ n1 # n2
    /\ Len(n1) = Len(n2)
    /\ IndexIn(LAW_PCODE_MAPPING, n1) < IndexIn(LAW_PCODE_MAPPING, n2)

====
